---- MODULE Spec2Model ----
(***************************************************************************)
(* A model of the battery test data tool: the Toyo label inference engine  *)
(* (src/src/toyo_labeling.py), the PNE column reconciliation and the file   *)
(* loops of the loaders (src/src/data_loaders.py), the path classifier and *)
(* the descriptor parser (src/src/utils.py) and the processor's load /     *)
(* merge / export state machine (src/src/battery_data_processor.py).       *)
(*                                                                         *)
(* Encodings.  Python's None is the integer None (-1) where the value is   *)
(* otherwise a natural number, and a record with isnull = TRUE for a       *)
(* table cell.  Measurements are integers: Current in 0.01 mA, Voltage in  *)
(* 0.00001 V, a C-rate in thousandths, a cutoff voltage in 0.0001 V and a  *)
(* cutoff current in 0.1 mA, so that round(x, n) is a real rounding.       *)
(* Labels: WARRANTY is the pattern '보증', LIFE is '수명'; in a step label *)
(* "charge" stands for '충전' and "discharge" for '방전'.                  *)
(***************************************************************************)
EXTENDS Integers, Sequences, FiniteSets, TLC

VARIABLES
    \* ---- label_capacity_log, row by row (the loops over df.iterrows())
    raw_df,           \* the raw table handed to the labeler, or NoTable
    current_cycle,    \* _calculate_cycles: running counter
    prev_condition,   \* _calculate_cycles: Condition of the previous row, or None
    row,              \* the last summary row, with its label columns
    \* ---- label_capacity_log on a whole table
    capacity_df,      \* the summary table handed to the labeler
    labeled,          \* [done, rows]: the table label_capacity_log returned
    \* ---- PNELoader.load_channel_data
    save_data_files,  \* column counts of the SaveData files still to read
    data_frames,      \* the column lists of the files parsed so far
    combined_df,      \* [done, columns]: the channel table's columns
    \* ---- BatteryDataProcessor
    data_path,        \* [kind, items, name]: the path given, as the
                      \* classifier and the descriptor parser see it
    equipment_type,   \* "PNE" or "Toyo"
    battery_info,     \* [capacity_mah]: the descriptor's capacity, or None
    disk,             \* channel directory -> its content
    loader_channel_data,  \* data_loader.channel_data (ordered dict)
    channel_data,     \* processor.channel_data (ordered dict)
    merged_data,      \* [isnull, rows]: processor.merged_data
    loaded,           \* whether load_data has been called
    result            \* outcome of the last call on the processor

labelRowVars == <<current_cycle, prev_condition, row>>
labelTableVars == <<capacity_df, labeled>>
pneVars == <<save_data_files, data_frames, combined_df>>
procVars == <<data_path, equipment_type, battery_info, disk, loader_channel_data,
              channel_data, merged_data, loaded, result>>
vars == <<raw_df, labelRowVars, labelTableVars, pneVars, procVars>>

-----------------------------------------------------------------------------
(* Bounds of the model *)

MaxCycle == 201
MaxRows == 3
MaxRaw == 2
MaxFiles == 2
MaxCols == 49
MaxChanRows == 2
MaxChanFiles == 2
MaxTokens == 5
MaxMode == 7

-----------------------------------------------------------------------------
(* Values *)

None == -1

Null == [isnull |-> TRUE, v |-> 0]

Some(x) == [isnull |-> FALSE, v |-> x]

NoTable == [isnull |-> TRUE, rows |-> <<>>]

Table(rows) == [isnull |-> FALSE, rows |-> rows]

Abs(x) == IF x < 0 THEN -x ELSE x

\* round(): the quotient num / den (den > 0, num >= 0) rounded to the nearest
\* integer, a tie going to the even neighbour as Python's round() and
\* numpy's round do.
Round(num, den) ==
    LET q == num \div den
        r == num % den
    IN  IF 2 * r < den THEN q
        ELSE IF 2 * r > den THEN q + 1
        ELSE IF q % 2 = 0 THEN q ELSE q + 1

RECURSIVE SumSeq(_)
SumSeq(s) == IF s = <<>> THEN 0 ELSE Head(s) + SumSeq(Tail(s))

RECURSIVE Flatten(_)
Flatten(ss) == IF ss = <<>> THEN <<>> ELSE Head(ss) \o Flatten(Tail(ss))

SeqsUpTo(S, n) == UNION {[1..k -> S] : k \in 0..n}

-----------------------------------------------------------------------------
(* ToyoDataLabeler *)

DEFAULT_RATED_CAPACITY == 1730

WARRANTY == "WARRANTY"

LIFE == "LIFE"

\* One iteration of _calculate_cycles: the counter after the row.
CycleStepEveryCharge(cycle, prev, condition) ==
    IF prev = None \/ condition = 1 THEN cycle + 1 ELSE cycle

CycleStep(cycle, prev, condition) ==
    IF prev = None \/ (condition = 1 /\ prev # 1) THEN cycle + 1 ELSE cycle

\* The loop of _calculate_cycles from row i on, entered with the counter
\* cycle and the previous row's Condition prev.
RECURSIVE CyclesFrom(_, _, _, _)
CyclesFrom(df, i, cycle, prev) ==
    IF i > Len(df) THEN <<>>
    ELSE LET c == CycleStep(cycle, prev, df[i].Condition)
         IN  <<c>> \o CyclesFrom(df, i + 1, c, df[i].Condition)

calculate_cycles(df) == CyclesFrom(df, 1, 0, None)

ClassifyPatternNoFirst(cycle) ==
    IF cycle > 0 /\ cycle % 100 = 0 THEN WARRANTY ELSE LIFE

ClassifyPattern(cycle) ==
    IF cycle = 1 \/ (cycle > 0 /\ cycle % 100 = 0) THEN WARRANTY ELSE LIFE

\* _define_steps without the step4 branch.
DefineStepNoStep4(pattern, condition, mode) ==
    IF pattern = WARRANTY
    THEN IF condition = 1 THEN "charge" ELSE "discharge"
    ELSE IF pattern = LIFE
    THEN IF condition = 1
         THEN IF mode <= 2 THEN "step1 CC charge"
              ELSE IF mode = 3 THEN "step2 CC charge"
              ELSE IF mode = 4 THEN "step3 CCCV charge"
              ELSE "charge"
         ELSE IF mode <= 5 THEN "step1 discharge" ELSE "step2 discharge"
    ELSE ""

DefineStep(pattern, condition, mode) ==
    IF pattern = WARRANTY
    THEN IF condition = 1 THEN "charge" ELSE "discharge"
    ELSE IF pattern = LIFE
    THEN IF condition = 1
         THEN IF mode <= 2 THEN "step1 CC charge"
              ELSE IF mode = 3 THEN "step2 CC charge"
              ELSE IF mode = 4 THEN "step3 CCCV charge"
              ELSE IF mode >= 5 THEN "step4 CCCV charge"
              ELSE "charge"
         ELSE IF mode <= 5 THEN "step1 discharge" ELSE "step2 discharge"
    ELSE ""

\* '충전' in step
HasCharge(step) ==
    step \in {"charge", "step1 CC charge", "step2 CC charge",
              "step3 CCCV charge", "step4 CCCV charge"}

\* 'stepN' in step
HasStep(step, n) ==
    \/ n = 1 /\ step \in {"step1 CC charge", "step1 discharge"}
    \/ n = 2 /\ step \in {"step2 CC charge", "step2 discharge"}
    \/ n = 3 /\ step = "step3 CCCV charge"
    \/ n = 4 /\ step = "step4 CCCV charge"

\* raw_df.loc[mask]: the raw rows with the summary row's key, in order.
Matching(raw, r) ==
    SelectSeq(raw, LAMBDA x : /\ x.TotlCycle = r.TotlCycle
                              /\ x.Condition = r.Condition
                              /\ x.Mode = r.Mode)

NonZeroCurrent(rows) ==
    LET nz == SelectSeq(rows, LAMBDA x : x.Current # 0)
    IN  [i \in 1..Len(nz) |-> nz[i].Current]

\* (Current is held in 0.01 mA: the factor 100 in the C-rate quotients.)
\* The division avg_current / self.rated_capacity is reached for the row.
CrateDivides(r, raw) == NonZeroCurrent(Matching(raw, r)) # <<>>

\* _calculate_crate for one row, in thousandths (rated is a number here).
CalculateCrate(r, raw, rated) ==
    LET m == Matching(raw, r)
        nz == NonZeroCurrent(m)
    IN  IF m # <<>>
        THEN IF nz # <<>>
             THEN Round(1000 * Abs(SumSeq(nz)), 100 * Len(nz) * rated)
             ELSE 0
        ELSE IF r.Cap > 0
             THEN IF r.pattern = WARRANTY THEN 200
                  ELSE IF r.Cap < 300 THEN 1000
                  ELSE IF r.Cap < 600 THEN 500
                  ELSE 300
             ELSE 0

\* _estimate_crate_from_capacity with >= for > in the capacity limits.
EstimateCrateInclusive(r) ==
    IF r.pattern = WARRANTY THEN 200
    ELSE IF r.pattern = LIFE
    THEN IF HasStep(r.step, 1) THEN 500
         ELSE IF HasStep(r.step, 2)
         THEN IF HasCharge(r.step) THEN 300 ELSE 500
         ELSE IF HasStep(r.step, 3) \/ HasStep(r.step, 4) THEN 500
         ELSE IF r.Cap >= 1500 THEN 700
         ELSE IF r.Cap >= 1000 THEN 500
         ELSE IF r.Cap >= 500 THEN 300
         ELSE 200
    ELSE 0

EstimateCrateFromCapacity(r) ==
    IF r.pattern = WARRANTY THEN 200
    ELSE IF r.pattern = LIFE
    THEN IF HasStep(r.step, 1) THEN 500
         ELSE IF HasStep(r.step, 2)
         THEN IF HasCharge(r.step) THEN 300 ELSE 500
         ELSE IF HasStep(r.step, 3) \/ HasStep(r.step, 4) THEN 500
         ELSE IF r.Cap > 1500 THEN 700
         ELSE IF r.Cap > 1000 THEN 500
         ELSE IF r.Cap > 500 THEN 300
         ELSE 200
    ELSE 0

ExtractCutoffVoltageZero(r, raw) ==
    IF r.Finish = "Vol"
    THEN LET m == Matching(raw, r)
         IN  IF m # <<>> THEN Some(Round(m[Len(m)].Voltage, 10))
             ELSE IF HasCharge(r.step) THEN Some(45000) ELSE Some(27500)
    ELSE Some(0)

\* _extract_cutoff_voltage with the charge default for every unmatched row.
ExtractCutoffVoltageAnyStep(r, raw) ==
    IF r.Finish = "Vol"
    THEN LET m == Matching(raw, r)
         IN  IF m # <<>> THEN Some(Round(m[Len(m)].Voltage, 10))
             ELSE Some(45000)
    ELSE Null

ExtractCutoffVoltage(r, raw) ==
    IF r.Finish = "Vol"
    THEN LET m == Matching(raw, r)
         IN  IF m # <<>> THEN Some(Round(m[Len(m)].Voltage, 10))
             ELSE IF HasCharge(r.step) THEN Some(45000) ELSE Some(27500)
    ELSE Null

ExtractCutoffCurrent(r, raw) ==
    IF r.Finish = "Cur"
    THEN LET m == Matching(raw, r)
         IN  IF m # <<>> THEN Some(Round(Abs(m[Len(m)].Current), 10))
             ELSE Some(870)
    ELSE Null

\* label_capacity_log taking the cutoff defaults when no raw table is given.
LabelRowDefaults(r, cycle, raw, rated) ==
    LET pattern == ClassifyPattern(cycle)
        r2 == [TotlCycle |-> r.TotlCycle, Condition |-> r.Condition,
               Mode |-> r.Mode, Cap |-> r.Cap, Finish |-> r.Finish,
               cycle |-> cycle, pattern |-> pattern,
               step |-> DefineStep(pattern, r.Condition, r.Mode)]
        rows == IF raw.isnull THEN <<>> ELSE raw.rows
    IN  [TotlCycle |-> r.TotlCycle, Condition |-> r.Condition,
         Mode |-> r.Mode, Cap |-> r.Cap, Finish |-> r.Finish,
         cycle |-> cycle, pattern |-> r2.pattern, step |-> r2.step,
         crate |-> IF raw.isnull THEN EstimateCrateFromCapacity(r2)
                   ELSE CalculateCrate(r2, raw.rows, rated),
         cutoff_voltage |-> ExtractCutoffVoltage(r2, rows),
         cutoff_current |-> ExtractCutoffCurrent(r2, rows)]

\* The label columns label_capacity_log adds to one summary row r whose
\* computed cycle is cycle; raw is the raw table, or NoTable.
LabelRow(r, cycle, raw, rated) ==
    LET r1 == [TotlCycle |-> r.TotlCycle, Condition |-> r.Condition,
               Mode |-> r.Mode, Cap |-> r.Cap, Finish |-> r.Finish,
               cycle |-> cycle, pattern |-> ClassifyPattern(cycle)]
        r2 == [TotlCycle |-> r.TotlCycle, Condition |-> r.Condition,
               Mode |-> r.Mode, Cap |-> r.Cap, Finish |-> r.Finish,
               cycle |-> cycle, pattern |-> r1.pattern,
               step |-> DefineStep(r1.pattern, r.Condition, r.Mode)]
    IN  [TotlCycle |-> r.TotlCycle, Condition |-> r.Condition,
         Mode |-> r.Mode, Cap |-> r.Cap, Finish |-> r.Finish,
         cycle |-> cycle, pattern |-> r2.pattern, step |-> r2.step,
         crate |-> IF raw.isnull THEN EstimateCrateFromCapacity(r2)
                   ELSE CalculateCrate(r2, raw.rows, rated),
         cutoff_voltage |-> IF raw.isnull THEN Null
                            ELSE ExtractCutoffVoltage(r2, raw.rows),
         cutoff_current |-> IF raw.isnull THEN Null
                            ELSE ExtractCutoffCurrent(r2, raw.rows)]

\* label_capacity_log raises TypeError: a labeler built with rated capacity
\* None divides a float by None in _calculate_crate.
LabelCapacityLogRaises(df, raw, rated) ==
    /\ rated = None
    /\ ~raw.isnull
    /\ \E i \in 1..Len(df) : CrateDivides(df[i], raw.rows)

label_capacity_log(df, raw, rated) ==
    LET cycles == calculate_cycles(df)
    IN  [i \in 1..Len(df) |-> LabelRow(df[i], cycles[i], raw, rated)]

\* label_raw_data raises TypeError: abs(df['Current']) / None.
LabelRawDataRaises(raw, rated) == rated = None

\* The lookup keyed by TotlCycle alone.
MapGetByCycle(df, x, column) ==
    LET m == SelectSeq(df, LAMBDA r : r.TotlCycle = x.TotlCycle)
    IN  IF m = <<>> THEN ""
        ELSE IF column = "pattern" THEN m[Len(m)].pattern ELSE m[Len(m)].step

\* The lookup in which the first summary row of a key is kept.
MapGetFirst(df, x, column) ==
    LET m == SelectSeq(df, LAMBDA r : /\ r.TotlCycle = x.TotlCycle
                                      /\ r.Condition = x.Condition
                                      /\ r.Mode = x.Mode)
    IN  IF m = <<>> THEN ""
        ELSE IF column = "pattern" THEN m[1].pattern ELSE m[1].step

\* pattern_map / step_map lookup: the last labeled summary row with the raw
\* row's key decides; a key no summary row has gives the empty string.
MapGet(df, x, column) ==
    LET m == SelectSeq(df, LAMBDA r : /\ r.TotlCycle = x.TotlCycle
                                      /\ r.Condition = x.Condition
                                      /\ r.Mode = x.Mode)
    IN  IF m = <<>> THEN ""
        ELSE IF column = "pattern" THEN m[Len(m)].pattern ELSE m[Len(m)].step

\* label_raw_data with a labeled summary table df (rated is a number here).
label_raw_data(raw, df, rated) ==
    [i \in 1..Len(raw) |->
        [TotlCycle |-> raw[i].TotlCycle, Condition |-> raw[i].Condition,
         Mode |-> raw[i].Mode, Current |-> raw[i].Current,
         Voltage |-> raw[i].Voltage,
         crate |-> Round(1000 * Abs(raw[i].Current), 100 * rated),
         pattern |-> MapGet(df, raw[i], "pattern"),
         step |-> MapGet(df, raw[i], "step")]]

-----------------------------------------------------------------------------
(* Inputs of the labeler *)

CapRow(t, c, m, cap, f) ==
    [TotlCycle |-> t, Condition |-> c, Mode |-> m, Cap |-> cap, Finish |-> f]

RawRow(t, c, m, cur, v) ==
    [TotlCycle |-> t, Condition |-> c, Mode |-> m, Current |-> cur, Voltage |-> v]

\* create_sample_data: the summary table of the labeling test.
SampleCapacity ==
    << CapRow(1, 1, 1, 889, "Cur"),    CapRow(1, 2, 1, 1725, "Vol"),
       CapRow(2, 1, 2, 502, "Vol"),    CapRow(3, 1, 3, 219, "Vol"),
       CapRow(4, 1, 4, 469, "Cur"),    CapRow(5, 1, 5, 502, "Cur"),
       CapRow(6, 2, 5, 1179, "Vol"),   CapRow(7, 2, 6, 447, "Vol"),
       CapRow(487, 1, 2, 471, "Vol"),  CapRow(488, 1, 3, 196, "Vol"),
       CapRow(489, 1, 4, 449, "Cur"),  CapRow(490, 1, 5, 520, "Cur"),
       CapRow(490, 2, 5, 1223, "Vol"), CapRow(491, 2, 6, 417, "Vol"),
       CapRow(492, 1, 7, 1669, "Cur"), CapRow(492, 2, 7, 1730, "Vol"),
       CapRow(493, 1, 8, 506, "Vol"),  CapRow(494, 1, 9, 207, "Vol"),
       CapRow(495, 1, 10, 464, "Cur"), CapRow(496, 1, 11, 523, "Cur") >>

\* create_sample_data: the raw table of the labeling test (5 rows, 4 times).
SampleRawBlock ==
    << RawRow(1, 1, 1, 3360, 449950), RawRow(1, 0, 1, 0, 449950),
       RawRow(1, 0, 1, 0, 448950),    RawRow(1, 2, 1, 0, 448950),
       RawRow(1, 2, 1, 33770, 274250) >>

SampleRaw == SampleRawBlock \o SampleRawBlock \o SampleRawBlock \o SampleRawBlock

\* The summary rows a bounded table is built from.
TableRows ==
    {CapRow(1, c, 1, 889, f) : c \in {1, 2}, f \in {"Vol", "Cur", "Tim"}}

\* The raw rows a bounded raw table is built from.
RawRows ==
    {RawRow(1, c, 1, cur, 449953) : c \in {1, 2}, cur \in {-33770, 0, 33770}}

CapTables ==
    SeqsUpTo(TableRows, MaxRows)
        \cup {SubSeq(SampleCapacity, 1, n) : n \in {8, Len(SampleCapacity)}}

RawTables ==
    {NoTable} \cup {Table(t) : t \in SeqsUpTo(RawRows, MaxRaw) \cup {SampleRaw}}

\* The summary rows read one at a time by the row-by-row labeling.
StreamRows ==
    {CapRow(1, c, m, cap, f) :
        c \in {0, 1, 2}, m \in {1, 3, 6}, cap \in {0, 219, 300, 600, 1669},
        f \in {"Vol", "Cur"}}

StreamRawTables == {NoTable, Table(SampleRaw)}

-----------------------------------------------------------------------------
(* Idle values: the parts of the state a specification does not use *)

NoRow == [isnull |-> TRUE]

LabelRowIdle ==
    /\ current_cycle = 0
    /\ prev_condition = None
    /\ row = NoRow

LabelTableIdle ==
    /\ capacity_df = <<>>
    /\ labeled = [done |-> FALSE, rows |-> <<>>]

PneIdle ==
    /\ save_data_files = <<>>
    /\ data_frames = <<>>
    /\ combined_df = [done |-> FALSE, columns |-> <<>>]

NoPath == [kind |-> "none"]

ProcIdle ==
    /\ data_path = NoPath
    /\ equipment_type = ""
    /\ battery_info = [capacity_mah |-> None]
    /\ disk = <<>>
    /\ loader_channel_data = <<>>
    /\ channel_data = <<>>
    /\ merged_data = NoTable
    /\ loaded = FALSE
    /\ result = [op |-> "init"]

-----------------------------------------------------------------------------
(* label_capacity_log, one summary row per step *)

InitCycles ==
    /\ raw_df \in StreamRawTables
    /\ LabelRowIdle
    /\ LabelTableIdle /\ PneIdle /\ ProcIdle

\* One iteration of the loops over df.iterrows(): the next summary row r is
\* given its cycle, pattern, step, C-rate and cutoff columns.
LabelNextRow(r) ==
    /\ current_cycle < MaxCycle
    /\ current_cycle' = CycleStep(current_cycle, prev_condition, r.Condition)
    /\ prev_condition' = r.Condition
    /\ row' = LabelRow(r, current_cycle', raw_df, DEFAULT_RATED_CAPACITY)
    /\ UNCHANGED <<raw_df, labelTableVars, pneVars, procVars>>

NextCycles == \E r \in StreamRows : LabelNextRow(r)

SpecCycles == InitCycles /\ [][NextCycles]_vars

-----------------------------------------------------------------------------
(* label_capacity_log on a whole table *)

Init ==
    /\ raw_df \in RawTables
    /\ capacity_df \in CapTables
    /\ labeled = [done |-> FALSE, rows |-> <<>>]
    /\ LabelRowIdle /\ PneIdle /\ ProcIdle

LabelCapacityLog ==
    /\ ~labeled.done
    /\ labeled' = [done |-> TRUE,
                   rows |-> label_capacity_log(capacity_df, raw_df,
                                               DEFAULT_RATED_CAPACITY)]
    /\ UNCHANGED <<raw_df, capacity_df, labelRowVars, pneVars, procVars>>

Next == LabelCapacityLog

Spec == Init /\ [][Next]_vars

-----------------------------------------------------------------------------
(* label_capacity_log followed by label_raw_data, as the exporter calls them *)

\* The raw rows of the raw tables to label: Mode 2 is in no summary row.
KeyRawRows ==
    {RawRow(1, c, m, 33770, 449953) : c \in {1, 2}, m \in {1, 2}}

InitRaw ==
    /\ raw_df \in {Table(t) : t \in SeqsUpTo(KeyRawRows, MaxRaw)}
    /\ capacity_df \in CapTables
    /\ labeled = [done |-> FALSE, rows |-> <<>>]
    /\ LabelRowIdle /\ PneIdle /\ ProcIdle

\* raw_data = labeler.label_raw_data(raw_data, labeled_capacity)
LabelRawData ==
    /\ labeled.done
    /\ result.op = "init"
    /\ result' = [op |-> "label_raw_data",
                  rows |-> label_raw_data(raw_df.rows, labeled.rows,
                                          DEFAULT_RATED_CAPACITY)]
    /\ UNCHANGED <<raw_df, capacity_df, labeled, labelRowVars, pneVars,
                   data_path, equipment_type, battery_info, disk,
                   loader_channel_data, channel_data, merged_data, loaded>>

NextRaw == LabelCapacityLog \/ LabelRawData

SpecRaw == InitRaw /\ [][NextRaw]_vars

-----------------------------------------------------------------------------
(* _define_steps and _estimate_crate_from_capacity on any labeled row *)

\* The step labels _define_steps writes.
StepLabels ==
    {"charge", "discharge", "step1 CC charge", "step2 CC charge",
     "step3 CCCV charge", "step4 CCCV charge", "step1 discharge",
     "step2 discharge"}

\* Summary rows with the columns the two functions read.
LabeledRows ==
    [pattern : {WARRANTY, LIFE, ""}, step : StepLabels \cup {""},
     Condition : 0..2, Mode : 0..MaxMode,
     Cap : {0, 500, 501, 1000, 1001, 1500, 1501}]

InitSteps ==
    /\ capacity_df \in {<<r>> : r \in LabeledRows}
    /\ labeled = [done |-> FALSE, rows |-> <<>>]
    /\ raw_df = NoTable
    /\ LabelRowIdle /\ PneIdle /\ ProcIdle

\* df['스텝'] = self._define_steps(df)
DefineSteps ==
    /\ ~labeled.done
    /\ labeled' =
           [done |-> TRUE,
            rows |-> [i \in 1..Len(capacity_df) |->
                        [capacity_df[i] EXCEPT
                            !.step = DefineStep(capacity_df[i].pattern,
                                                capacity_df[i].Condition,
                                                capacity_df[i].Mode)]]]
    /\ result' = [op |-> "_define_steps"]
    /\ UNCHANGED <<raw_df, capacity_df, labelRowVars, pneVars, data_path,
                   equipment_type, battery_info, disk, loader_channel_data,
                   channel_data, merged_data, loaded>>

\* df['C-rate'] = self._estimate_crate_from_capacity(df)
EstimateCrate ==
    /\ ~labeled.done
    /\ labeled' =
           [done |-> TRUE,
            rows |-> [i \in 1..Len(capacity_df) |->
                        [pattern |-> capacity_df[i].pattern,
                         step |-> capacity_df[i].step,
                         Condition |-> capacity_df[i].Condition,
                         Mode |-> capacity_df[i].Mode,
                         Cap |-> capacity_df[i].Cap,
                         crate |-> EstimateCrateFromCapacity(capacity_df[i])]]]
    /\ result' = [op |-> "_estimate_crate_from_capacity"]
    /\ UNCHANGED <<raw_df, capacity_df, labelRowVars, pneVars, data_path,
                   equipment_type, battery_info, disk, loader_channel_data,
                   channel_data, merged_data, loaded>>

NextSteps == DefineSteps \/ EstimateCrate

SpecSteps == InitSteps /\ [][NextSteps]_vars

-----------------------------------------------------------------------------
(* PNELoader *)

COLUMN_NAMES ==
    << "Index", "Default", "Step_Type", "ChgDchg", "Current_App_Class",
       "CCCV", "End_State", "Step_Count", "Voltage_uV", "Current_uA",
       "Chg_Capacity_uAh", "Dchg_Capacity_uAh", "Chg_Power_mW",
       "Dchg_Power_mW", "Chg_WattHour_Wh", "Dchg_WattHour_Wh",
       "Repeat_Pattern_Count", "Step_Time_cs", "Tot_Time_day", "Tot_Time_cs",
       "Impedance", "Temperature_1", "Temperature_2", "Temperature_3",
       "Temperature_4", "Unknown_25", "Repeat_Count", "Total_Cycle",
       "Current_Cycle", "Avg_Voltage_uV", "Avg_Current_uA", "Col_31",
       "CV_Section", "Date_YYYYMMDD", "Time_HHmmss", "Col_35", "Col_36",
       "Col_37", "Step_Info", "CC_Charge", "CV_Section_2", "Discharge",
       "Col_42", "Avg_Voltage_Section", "Cumulative_Step", "Voltage_Max_uV",
       "Voltage_Min_uV" >>

\* apply_column_mapping padding a short table to the full schema.
ApplyColumnMappingPadded(num_cols) ==
    LET expected_cols == Len(COLUMN_NAMES)
    IN  IF num_cols <= expected_cols
        THEN COLUMN_NAMES
        ELSE COLUMN_NAMES \o
             [i \in 1..(num_cols - expected_cols) |-> "Extra_Col_" \o ToString(i)]

\* apply_column_mapping numbering the extra columns from 0.
ApplyColumnMappingZeroBased(num_cols) ==
    LET expected_cols == Len(COLUMN_NAMES)
    IN  IF num_cols <= expected_cols
        THEN SubSeq(COLUMN_NAMES, 1, num_cols)
        ELSE COLUMN_NAMES \o
             [i \in 1..(num_cols - expected_cols) |->
                 "Extra_Col_" \o ToString(i - 1)]

\* apply_column_mapping: the column names given to a table read with
\* num_cols positional columns.
ApplyColumnMapping(num_cols) ==
    LET expected_cols == Len(COLUMN_NAMES)
    IN  IF num_cols = expected_cols
        THEN COLUMN_NAMES
        ELSE IF num_cols < expected_cols
        THEN SubSeq(COLUMN_NAMES, 1, num_cols)
        ELSE COLUMN_NAMES \o
             [i \in 1..(num_cols - expected_cols) |-> "Extra_Col_" \o ToString(i)]

\* pd.concat(data_frames): the columns of the frames in order of first
\* appearance.
RECURSIVE ConcatColumns(_, _)
ConcatColumns(frames, acc) ==
    IF frames = <<>> THEN acc
    ELSE LET new == SelectSeq(Head(frames).columns,
                              LAMBDA c : \A j \in 1..Len(acc) : acc[j] # c)
         IN  ConcatColumns(Tail(frames), acc \o new)

\* A SaveData file is the number of tab-separated columns pandas reads from
\* it; 0 is a file pd.read_csv raises on.
SaveDataFiles == 0..MaxCols

InitPNE ==
    /\ save_data_files \in SeqsUpTo(SaveDataFiles, MaxFiles)
    /\ data_frames = <<>>
    /\ combined_df = [done |-> FALSE, columns |-> <<>>]
    /\ raw_df = NoTable
    /\ LabelRowIdle /\ LabelTableIdle /\ ProcIdle

\* One iteration of the loop over save_data_files: read the file and name
\* its columns; a file that fails to parse is skipped.
ReadSaveData ==
    /\ ~combined_df.done
    /\ save_data_files # <<>>
    /\ LET num_cols == Head(save_data_files)
       IN  data_frames' =
               IF num_cols = 0 THEN data_frames
               ELSE Append(data_frames,
                           [num_cols |-> num_cols,
                            columns |-> ApplyColumnMapping(num_cols)])
    /\ save_data_files' = Tail(save_data_files)
    /\ UNCHANGED <<combined_df, raw_df, labelRowVars, labelTableVars, procVars>>

\* After the loop: an empty table when nothing was parsed, else the
\* concatenation (the unit columns are added only for the lower-case names
\* 'voltage_uv', 'current_ua', 'chg_capacity_uah', 'dchg_capacity_uah').
ConcatSaveData ==
    /\ ~combined_df.done
    /\ save_data_files = <<>>
    /\ combined_df' =
           [done |-> TRUE,
            columns |->
                LET cols == ConcatColumns(data_frames, <<>>)
                    has(c) == \E j \in 1..Len(cols) : cols[j] = c
                IN  cols
                    \o (IF has("voltage_uv") THEN <<"voltage_v">> ELSE <<>>)
                    \o (IF has("current_ua") THEN <<"current_ma">> ELSE <<>>)
                    \o (IF has("chg_capacity_uah") THEN <<"chg_capacity_mah">> ELSE <<>>)
                    \o (IF has("dchg_capacity_uah") THEN <<"dchg_capacity_mah">> ELSE <<>>)]
    /\ UNCHANGED <<save_data_files, data_frames, raw_df, labelRowVars,
                   labelTableVars, procVars>>

NextPNE == ReadSaveData \/ ConcatSaveData

SpecPNE == InitPNE /\ [][NextPNE]_vars

-----------------------------------------------------------------------------
(* Properties of the label inference engine *)

Conditions(df) == [i \in 1..Len(df) |-> df[i].Condition]

Cycles(df) == [i \in 1..Len(df) |-> df[i].cycle]

C3_PatternTotality ==
    row # NoRow =>
        /\ row.pattern \in {WARRANTY, LIFE}
        /\ row.pattern = WARRANTY <=> (row.cycle = 1 \/ row.cycle % 100 = 0)

C3_Witness ==
    /\ row # NoRow
    /\ row.cycle = 100
    /\ row.Cap = 1669
    /\ row.Condition = 2
    /\ row.pattern = WARRANTY

\* C4: in the labeled table, with or without a raw table, a row's cutoff
\* voltage is non-null only if its Finish is "Vol" and its cutoff current
\* is non-null only if its Finish is "Cur".
C4_CutoffByFinish ==
    labeled.done =>
        \A i \in 1..Len(labeled.rows) :
            /\ ~labeled.rows[i].cutoff_voltage.isnull => labeled.rows[i].Finish = "Vol"
            /\ ~labeled.rows[i].cutoff_current.isnull => labeled.rows[i].Finish = "Cur"

C4_Witness ==
    /\ labeled.done
    /\ ~raw_df.isnull
    /\ \E i, j \in 1..Len(labeled.rows) :
           /\ labeled.rows[i].Finish = "Vol"
           /\ ~labeled.rows[i].cutoff_voltage.isnull
           /\ labeled.rows[i].cutoff_current.isnull
           /\ labeled.rows[j].Finish = "Cur"
           /\ ~labeled.rows[j].cutoff_current.isnull
           /\ labeled.rows[j].cutoff_voltage.isnull

\* The raw rows of the raw table with the key of the summary row r.
RawMatches(r) ==
    SelectSeq(raw_df.rows, LAMBDA x : /\ x.TotlCycle = r.TotlCycle
                                      /\ x.Condition = r.Condition
                                      /\ x.Mode = r.Mode /\ x.Current # 0)

\* C19: with a raw table, a summary row with non-zero Current readings
\* among its matching raw rows has as C-rate the mean of their absolute
\* values divided by the rated capacity, rounded to 3 decimals, whatever
\* the signs of the readings.
C19_CrateMeanOfAbs ==
    (labeled.done /\ ~raw_df.isnull) =>
        \A i \in 1..Len(labeled.rows) :
            LET nz == RawMatches(labeled.rows[i])
            IN  nz # <<>> =>
                    labeled.rows[i].crate =
                        Round(1000 * SumSeq([k \in 1..Len(nz) |-> Abs(nz[k].Current)]),
                              100 * Len(nz) * DEFAULT_RATED_CAPACITY)

\* C20: with a raw table, a summary row that no raw row matches has C-rate
\* 0.2 when its pattern is WARRANTY; when it is LIFE with a capacity, 0.3
\* for Cap >= 600, 0.5 for 300 <= Cap < 600 and 1.0 for Cap < 300; and 0.0
\* otherwise.
C20_CrateFallback ==
    (/\ row # NoRow
     /\ ~raw_df.isnull
     /\ \A k \in 1..Len(raw_df.rows) :
            ~(/\ raw_df.rows[k].TotlCycle = row.TotlCycle
              /\ raw_df.rows[k].Condition = row.Condition
              /\ raw_df.rows[k].Mode = row.Mode)) =>
        row.crate =
            IF row.pattern = WARRANTY THEN 200
            ELSE IF row.pattern = LIFE /\ row.Cap > 0
            THEN (IF row.Cap >= 600 THEN 300
                  ELSE IF row.Cap >= 300 THEN 500 ELSE 1000)
            ELSE 0

\* C21: without a raw table the C-rate estimate of a row is 0.2 for
\* WARRANTY; for LIFE 0.5 on step1, 0.3 on step2 charge, 0.5 on step2
\* discharge, 0.5 on step3 and step4, and on any other step 0.7 for
\* Cap > 1500, 0.5 for Cap > 1000, 0.3 for Cap > 500, else 0.2.
C21_CrateEstimate ==
    (labeled.done /\ result.op = "_estimate_crate_from_capacity") =>
        \A i \in 1..Len(labeled.rows) :
            LET r == capacity_df[i]
                c == labeled.rows[i].crate
            IN  /\ r.pattern = WARRANTY => c = 200
                /\ r.pattern = LIFE =>
                       /\ r.step \in {"step1 CC charge", "step1 discharge"} => c = 500
                       /\ r.step = "step2 CC charge" => c = 300
                       /\ r.step = "step2 discharge" => c = 500
                       /\ r.step \in {"step3 CCCV charge", "step4 CCCV charge"}
                              => c = 500
                       /\ r.step \in {"", "charge", "discharge"} =>
                              c = (IF r.Cap > 1500 THEN 700
                                   ELSE IF r.Cap > 1000 THEN 500
                                   ELSE IF r.Cap > 500 THEN 300 ELSE 200)

C21_Witness ==
    /\ labeled.done
    /\ result.op = "_estimate_crate_from_capacity"
    /\ capacity_df[1].pattern = LIFE
    /\ capacity_df[1].step = "discharge"
    /\ capacity_df[1].Cap = 1500
    /\ labeled.rows[1].crate = 500

\* The raw table is given and holds no row with the key of the summary row.
NoRawMatch(r) ==
    /\ ~raw_df.isnull
    /\ \A k \in 1..Len(raw_df.rows) :
           ~(/\ raw_df.rows[k].TotlCycle = r.TotlCycle
             /\ raw_df.rows[k].Condition = r.Condition
             /\ raw_df.rows[k].Mode = r.Mode)

C28_NoRawNoCutoff ==
    (labeled.done /\ raw_df.isnull) =>
        /\ Len(labeled.rows) = Len(capacity_df)
        /\ \A i \in 1..Len(labeled.rows) :
               /\ labeled.rows[i].cutoff_voltage = Null
               /\ labeled.rows[i].cutoff_current = Null
               /\ labeled.rows[i].cycle >= 1
               /\ labeled.rows[i].pattern \in {WARRANTY, LIFE}
               /\ labeled.rows[i].step \in StepLabels
               /\ labeled.rows[i].crate > 0

C28_Witness ==
    /\ labeled.done
    /\ raw_df.isnull
    /\ \E i, j \in 1..Len(labeled.rows) :
           /\ labeled.rows[i].Finish = "Vol"
           /\ labeled.rows[i].step = "charge"
           /\ labeled.rows[i].cutoff_voltage = Null
           /\ labeled.rows[j].Finish = "Cur"
           /\ labeled.rows[j].cutoff_current = Null

\* C29: a summary row labeled without a raw table has C-rate 0.2, 0.3 or
\* 0.5: every LIFE row carries a step1..step4 label, so neither the
\* fallback by Cap[mAh] nor the 0.0 branch of the estimate is taken.
C29_EstimateRange ==
    (row # NoRow /\ raw_df.isnull) =>
        /\ row.crate \in {200, 300, 500}
        /\ row.pattern \in {WARRANTY, LIFE}
        /\ row.pattern = LIFE =>
               row.step \in {"step1 CC charge", "step2 CC charge",
                             "step3 CCCV charge", "step4 CCCV charge",
                             "step1 discharge", "step2 discharge"}

C29_Witness ==
    /\ row # NoRow
    /\ raw_df.isnull
    /\ row.pattern = LIFE
    /\ row.Mode = 6
    /\ row.Condition = 1
    /\ row.Cap = 1669
    /\ row.crate = 500

\* The labeled summary rows with the key of the raw row x.
SummaryMatches(x) ==
    {j \in 1..Len(labeled.rows) :
        /\ labeled.rows[j].TotlCycle = x.TotlCycle
        /\ labeled.rows[j].Condition = x.Condition
        /\ labeled.rows[j].Mode = x.Mode}

\* C24: label_raw_data returns the raw rows in the same order and number;
\* each carries the pattern and step of one summary row with the identical
\* (TotlCycle, Condition, Mode) key, or the empty string in both columns
\* when no summary row has its key; both columns are always there.
C24_RawLabels ==
    result.op = "label_raw_data" =>
        /\ Len(result.rows) = Len(raw_df.rows)
        /\ \A i \in 1..Len(result.rows) :
               LET x == raw_df.rows[i]
                   y == result.rows[i]
               IN  /\ {"pattern", "step"} \subseteq DOMAIN y
                   /\ y.TotlCycle = x.TotlCycle /\ y.Condition = x.Condition
                   /\ y.Mode = x.Mode /\ y.Current = x.Current
                   /\ y.Voltage = x.Voltage
                   /\ IF SummaryMatches(x) = {}
                      THEN y.pattern = "" /\ y.step = ""
                      ELSE \E j \in SummaryMatches(x) :
                               /\ y.pattern = labeled.rows[j].pattern
                               /\ y.step = labeled.rows[j].step

C24_Witness ==
    /\ result.op = "label_raw_data"
    /\ Len(result.rows) = 2
    /\ SummaryMatches(raw_df.rows[1]) = {}
    /\ result.rows[1].step = ""
    /\ SummaryMatches(raw_df.rows[2]) # {}
    /\ result.rows[2].step = "discharge"

\* The largest element of a non-empty set of row numbers.
Last(S) == CHOOSE j \in S : \A k \in S : k <= j

\* C30: when several labeled summary rows share one key, every raw row of
\* that key gets the pattern and step of the last of them in file order,
\* so raw rows with equal keys get identical pattern and step.
C30_LastSummaryRowWins ==
    result.op = "label_raw_data" =>
        \A i \in 1..Len(result.rows) :
            SummaryMatches(raw_df.rows[i]) # {} =>
                LET j == Last(SummaryMatches(raw_df.rows[i]))
                IN  /\ result.rows[i].pattern = labeled.rows[j].pattern
                    /\ result.rows[i].step = labeled.rows[j].step

C30_Witness ==
    /\ result.op = "label_raw_data"
    /\ \E i \in 1..Len(result.rows) :
           \E j, k \in SummaryMatches(raw_df.rows[i]) :
               /\ j < k
               /\ labeled.rows[j].pattern # labeled.rows[k].pattern
               /\ labeled.rows[j].step # labeled.rows[k].step
               /\ result.rows[i].pattern = labeled.rows[k].pattern
               /\ result.rows[i].step = labeled.rows[k].step

-----------------------------------------------------------------------------
(* Properties of the PNE column reconciliation *)

\* C10: a file read with N <= 47 columns is given exactly N column names,
\* the first N names of the schema in order, and no synthetic name.
C10_SchemaTruncation ==
    \A k \in 1..Len(data_frames) :
        data_frames[k].num_cols <= Len(COLUMN_NAMES) =>
            /\ Len(data_frames[k].columns) = data_frames[k].num_cols
            /\ \A i \in 1..data_frames[k].num_cols :
                   data_frames[k].columns[i] = COLUMN_NAMES[i]

C10_Witness ==
    \E k, l \in 1..Len(data_frames) :
        /\ data_frames[k].num_cols = 44
        /\ Len(data_frames[k].columns) = 44
        /\ data_frames[l].num_cols = 47

\* The names a file with more than 47 columns gets, under a given prefix
\* of the synthetic names.
NamedWithExtras(frame, prefix) ==
    /\ Len(frame.columns) = frame.num_cols
    /\ \A i \in 1..Len(COLUMN_NAMES) : frame.columns[i] = COLUMN_NAMES[i]
    /\ \A i \in 1..(frame.num_cols - Len(COLUMN_NAMES)) :
           frame.columns[Len(COLUMN_NAMES) + i] = prefix \o ToString(i)

\* C11 as stated: a file read with N > 47 columns is given the 47 schema
\* names followed by ExtraCol_1 .. ExtraCol_(N-47), in order.
C11_ExtraColNames ==
    \A k \in 1..Len(data_frames) :
        data_frames[k].num_cols > Len(COLUMN_NAMES) =>
            NamedWithExtras(data_frames[k], "ExtraCol_")

\* C11 amended: a file read with N > 47 columns is given the 47 schema
\* names followed by Extra_Col_1 .. Extra_Col_(N-47), in order.
C11_ExtraUnderscoreColNames ==
    \A k \in 1..Len(data_frames) :
        data_frames[k].num_cols > Len(COLUMN_NAMES) =>
            NamedWithExtras(data_frames[k], "Extra_Col_")

C11_Witness ==
    \E k \in 1..Len(data_frames) :
        /\ data_frames[k].num_cols = Len(COLUMN_NAMES) + 2
        /\ data_frames[k].columns[Len(COLUMN_NAMES) + 2] = "Extra_Col_2"

HasColumn(columns, c) == \E j \in 1..Len(columns) : columns[j] = c

\* The micro-scale columns of the schema and the human-scale column the
\* load derives from each.
UnitColumns ==
    { <<"Voltage_uV", "voltage_v">>, <<"Current_uA", "current_ma">>,
      <<"Chg_Capacity_uAh", "chg_capacity_mah">>,
      <<"Dchg_Capacity_uAh", "dchg_capacity_mah">> }

\* C12: after a channel load, every micro-scale column the mapping produced
\* is still in the channel table and its derived human-scale column is in
\* the table too.
C12_DerivedUnitColumns ==
    combined_df.done =>
        \A k \in 1..Len(data_frames) : \A u \in UnitColumns :
            HasColumn(data_frames[k].columns, u[1]) =>
                /\ HasColumn(combined_df.columns, u[1])
                /\ HasColumn(combined_df.columns, u[2])

-----------------------------------------------------------------------------
(* BatteryDataProcessor: the data directory *)

PNE_DIRS == <<"M01Ch003", "M01Ch004">>

TOYO_DIRS == <<"86", "93">>

\* get_channel_folders sorts by name: the directories in sorted order.
SortedDirs(eq) == IF eq = "PNE" THEN PNE_DIRS ELSE TOYO_DIRS

Range(s) == {s[i] : i \in 1..Len(s)}

\* The channel name load_all_channels / the export gives a directory.
ChannelName(eq, dir) == IF eq = "PNE" THEN dir ELSE "Ch" \o dir

\* A data file of a channel directory is what reading it gives: NoTable
\* when the read raises, else the table parsed from it.

\* A PNE channel directory: whether it exists with a Restore folder, and
\* its SaveData files in name order (here none, or one file of n rows).
PneContents ==
    {[exists |-> FALSE, has_log |-> FALSE, files |-> <<>>, cap |-> <<>>]}
    \cup {[exists |-> TRUE, has_log |-> FALSE,
           files |-> IF n = 0 THEN <<>>
                     ELSE <<Table([i \in 1..n |-> [Index |-> i]])>>,
           cap |-> <<>>] :
          n \in 0..MaxChanRows}

\* A Toyo channel directory: whether it exists, whether CAPACITY.LOG exists,
\* its raw sample files in name order and the rows of its summary log.
ToyoContents ==
    {[exists |-> FALSE, has_log |-> FALSE, files |-> <<>>, cap |-> <<>>]}
    \cup {x \in [exists : {TRUE}, has_log : BOOLEAN,
                  files : {<<>>, <<Table(SubSeq(SampleRawBlock, 1, 1))>>,
                           <<Table(SubSeq(SampleRawBlock, 4, 5))>>},
                  cap : {<<>>, SubSeq(SampleCapacity, 1, 2)}] :
            x.cap # <<>> => x.has_log}

Disks(eq) ==
    IF eq = "PNE" THEN [Range(PNE_DIRS) -> PneContents]
    ELSE [Range(TOYO_DIRS) -> ToyoContents]

\* detect_equipment_type finds the family's signature in the directory.
Detects(eq, d) ==
    IF eq = "PNE" THEN \E dir \in DOMAIN d : d[dir].exists
    ELSE \E dir \in DOMAIN d : d[dir].exists /\ d[dir].has_log

\* get_channel_folders
ChannelFolders(eq, d) == SelectSeq(SortedDirs(eq), LAMBDA dir : d[dir].exists)

\* validate_data_path
ValidDataPath(eq, d) == Detects(eq, d) /\ ChannelFolders(eq, d) # <<>>

\* The orders in which iterdir() may list the channel directories.
IterDirOrders(eq, d) ==
    LET S == {dir \in DOMAIN d : d[dir].exists}
    IN  {o \in [1..Cardinality(S) -> S] : \A i, j \in DOMAIN o : o[i] = o[j] => i = j}

-----------------------------------------------------------------------------
(* Loaders *)

\* Ordered dict: a sequence of [name, table] with distinct names.
DictKeys(cd) == {cd[i].name : i \in 1..Len(cd)}

DictSet(cd, name, table) ==
    IF name \in DictKeys(cd)
    THEN [i \in 1..Len(cd) |->
            IF cd[i].name = name THEN [name |-> name, table |-> table] ELSE cd[i]]
    ELSE Append(cd, [name |-> name, table |-> table])

\* The loop over the data files stopping at the first file that fails.
RECURSIVE ReadDataFilesBreak(_, _)
ReadDataFilesBreak(files, frames) ==
    IF files = <<>> THEN frames
    ELSE IF Head(files).isnull THEN frames
    ELSE ReadDataFilesBreak(Tail(files), Append(frames, Head(files).rows))

\* The loop over the data files of a channel, in name order: a file whose
\* read raises is skipped (`continue`), the others are appended to
\* data_frames.
RECURSIVE ReadDataFiles(_, _)
ReadDataFiles(files, frames) ==
    IF files = <<>> THEN frames
    ELSE IF Head(files).isnull THEN ReadDataFiles(Tail(files), frames)
    ELSE ReadDataFiles(Tail(files), Append(frames, Head(files).rows))

\* load_raw_data_files, and the same steps of PNELoader.load_channel_data:
\* an empty table without files or without a parsed file, else the
\* concatenation of the parsed files.
load_raw_data_files(files) ==
    IF files = <<>> THEN <<>>
    ELSE LET frames == ReadDataFiles(files, <<>>)
         IN  IF frames = <<>> THEN <<>> ELSE Flatten(frames)

\* load_channel_data: PNE gives the concatenated SaveData rows; Toyo gives
\* the raw rows if there are any, else the summary log.
LoadChannelData(eq, content) ==
    LET raw == load_raw_data_files(content.files)
    IN  IF eq = "PNE" THEN raw
        ELSE IF raw # <<>> THEN raw ELSE content.cap

\* The loop of load_all_channels over the channels found, in order.
RECURSIVE LoadChannels(_, _, _, _)
LoadChannels(cd, eq, d, order) ==
    IF order = <<>> THEN cd
    ELSE LoadChannels(DictSet(cd, ChannelName(eq, Head(order)),
                              LoadChannelData(eq, d[Head(order)])),
                      eq, d, Tail(order))

\* df_copy['channel'] = channel_name
StampRows(entry) ==
    [i \in 1..Len(entry.table) |-> [channel |-> entry.name, row |-> entry.table[i]]]

\* BaseDataLoader.merge_channel_data on the dict cd (not empty)
MergeChannelData(cd) == Flatten([i \in 1..Len(cd) |-> StampRows(cd[i])])

-----------------------------------------------------------------------------
(* BatteryDataProcessor *)

ChannelNames(eq) == {ChannelName(eq, SortedDirs(eq)[i]) : i \in 1..Len(SortedDirs(eq))}

\* The channel filters load_data is called with: None, or a list of names.
Filters(eq) ==
    {[isnull |-> TRUE, names |-> {}]}
    \cup {[isnull |-> FALSE, names |-> n] :
          n \in SUBSET (ChannelNames(eq) \cup {"Ch00"})}

Outcome(op, status, used, files) ==
    [op |-> op, status |-> status, used |-> used, files |-> files]

InitProc ==
    /\ data_path = NoPath
    /\ equipment_type \in {"PNE", "Toyo"}
    /\ battery_info \in {[capacity_mah |-> c] : c \in {None, 4352}}
    /\ disk \in Disks(equipment_type)
    /\ ValidDataPath(equipment_type, disk)
    /\ loader_channel_data = <<>>
    /\ channel_data = <<>>
    /\ merged_data = NoTable
    /\ loaded = FALSE
    /\ result = Outcome("init", "ok", NoTable, <<>>)
    /\ raw_df = NoTable
    /\ LabelRowIdle /\ LabelTableIdle /\ PneIdle

procFrame == <<raw_df, labelRowVars, labelTableVars, pneVars,
               data_path, equipment_type, battery_info, disk>>

\* load_data(channels): iterdir() lists the channel directories in order.
LoadData(channels, order) ==
    LET all == LoadChannels(loader_channel_data, equipment_type, disk, order)
        returned == IF order = <<>> THEN <<>> ELSE all
    IN  /\ loader_channel_data' = IF order = <<>> THEN loader_channel_data ELSE all
        /\ channel_data' =
               IF ~channels.isnull /\ channels.names # {}
               THEN SelectSeq(returned, LAMBDA e : e.name \in channels.names)
               ELSE returned
        /\ loaded' = TRUE
        /\ result' = Outcome("load_data", "ok", NoTable, <<>>)
        /\ UNCHANGED <<merged_data, procFrame>>

\* merge_channels raises ValueError
MergeRaises == channel_data = <<>> \/ loader_channel_data = <<>>

\* The table merge_channels stores in merged_data and returns.
MergeHeld == MergeChannelData(channel_data)

MergeResult == MergeChannelData(loader_channel_data)

MergeChannels ==
    /\ IF MergeRaises
       THEN /\ result' = Outcome("merge_channels", "ValueError", NoTable, <<>>)
            /\ UNCHANGED merged_data
       ELSE /\ merged_data' = Table(MergeResult)
            /\ result' = Outcome("merge_channels", "ok", merged_data', <<>>)
    /\ UNCHANGED <<loader_channel_data, channel_data, loaded, procFrame>>

\* `if self.merged_data is None: self.merge_channels()`: the merged table
\* the caller goes on with (the call raises when MergeRaises).
MergedOnDemand == IF merged_data.isnull THEN Table(MergeResult) ELSE merged_data

File(kind, channel, is_labeled, rows) ==
    [kind |-> kind, channel |-> channel, labeled |-> is_labeled, rows |-> rows]

\* `self.battery_info.get('capacity_mah', 1730) if self.battery_info else 1730`:
\* the descriptor always holds the key, so its value is returned, None too.
RatedCapacity == battery_info.capacity_mah

\* The body of the export loop for one channel folder raises (labeling).
ToyoChannelRaises(content) ==
    LET raw == load_raw_data_files(content.files)
    IN  /\ content.cap # <<>>
        /\ raw # <<>>
        /\ \/ LabelCapacityLogRaises(content.cap, Table(raw), RatedCapacity)
           \/ LabelRawDataRaises(raw, RatedCapacity)

\* The files the export loop writes for one channel folder.
ToyoChannelFiles(dir, content) ==
    LET name == ChannelName("Toyo", dir)
        raw == load_raw_data_files(content.files)
        label == content.cap # <<>>
        capacity_data ==
            IF ~label THEN content.cap
            ELSE IF raw # <<>>
            THEN label_capacity_log(content.cap, Table(raw), RatedCapacity)
            ELSE label_capacity_log(content.cap, NoTable, RatedCapacity)
        raw_data ==
            IF label /\ raw # <<>>
            THEN label_raw_data(raw, capacity_data, RatedCapacity)
            ELSE raw
    IN  IF ToyoChannelRaises(content) THEN <<>>
        ELSE (IF raw_data # <<>>
              THEN <<File("raw_data", name, TRUE, raw_data)>> ELSE <<>>)
             \o (IF capacity_data # <<>>
                 THEN <<File("capacity_log", name, TRUE, capacity_data)>> ELSE <<>>)

\* export_toyo_separate_files going over the channels the processor holds.
ExportToyoHeldChannels ==
    LET folders == SelectSeq(ChannelFolders(equipment_type, disk),
                             LAMBDA dir : ChannelName("Toyo", dir) \in DictKeys(channel_data))
    IN  Flatten([i \in 1..Len(folders) |->
                    ToyoChannelFiles(folders[i], disk[folders[i]])])
        \o <<File("summary", "", FALSE, <<>>)>>

\* export_toyo_separate_files leaving the loop at the first channel that
\* raises (`break` for `continue`).
ExportToyoSeparateFilesBreak ==
    LET folders == ChannelFolders(equipment_type, disk)
        raises(i) == ToyoChannelRaises(disk[folders[i]])
    IN  Flatten([i \in 1..Len(folders) |->
                    IF \E j \in 1..i : raises(j) THEN <<>>
                    ELSE ToyoChannelFiles(folders[i], disk[folders[i]])])
        \o <<File("summary", "", FALSE, <<>>)>>

\* export_toyo_separate_files: the list of files written.
ExportToyoSeparateFiles ==
    LET folders == ChannelFolders(equipment_type, disk)
    IN  Flatten([i \in 1..Len(folders) |->
                    ToyoChannelFiles(folders[i], disk[folders[i]])])
        \o <<File("summary", "", FALSE, <<>>)>>

\* export_to_csv whose Toyo branch stores the labeled tables it exported in
\* the processor's channel_data.
ExportToCsvPersistLabels ==
    /\ equipment_type = "Toyo"
    /\ result' = Outcome("export_to_csv", "ok", NoTable, ExportToyoSeparateFiles)
    /\ channel_data' =
           [i \in 1..Len(channel_data) |->
               LET fs == SelectSeq(result'.files,
                                   LAMBDA f : f.channel = channel_data[i].name)
               IN  IF fs = <<>> THEN channel_data[i]
                   ELSE [name |-> channel_data[i].name, table |-> fs[1].rows]]
    /\ UNCHANGED <<merged_data, loader_channel_data, loaded, procFrame>>

ExportToCsv ==
    /\ IF equipment_type = "Toyo"
       THEN /\ result' = Outcome("export_to_csv", "ok", NoTable, ExportToyoSeparateFiles)
            /\ UNCHANGED merged_data
       ELSE IF merged_data.isnull /\ MergeRaises
       THEN /\ result' = Outcome("export_to_csv", "ValueError", NoTable, <<>>)
            /\ UNCHANGED merged_data
       ELSE /\ merged_data' = MergedOnDemand
            /\ result' =
                   Outcome("export_to_csv", "ok", merged_data',
                           IF merged_data'.rows = <<>> THEN <<>>
                           ELSE << File("merged", "", FALSE, merged_data'.rows),
                                   File("summary", "", FALSE, <<>>) >>)
    /\ UNCHANGED <<loader_channel_data, channel_data, loaded, procFrame>>

\* get_summary_statistics and visualize_data: both merge on demand, give up
\* on an empty merged table and otherwise read the merged table.
ReadMerged(op) ==
    /\ IF merged_data.isnull /\ MergeRaises
       THEN /\ result' = Outcome(op, "ValueError", NoTable, <<>>)
            /\ UNCHANGED merged_data
       ELSE /\ merged_data' = MergedOnDemand
            /\ result' = Outcome(op, "ok", merged_data', <<>>)
    /\ UNCHANGED <<loader_channel_data, channel_data, loaded, procFrame>>

GetSummaryStatistics == ReadMerged("get_summary_statistics")

VisualizeData == ReadMerged("visualize_data")

NextProc ==
    \/ \E channels \in Filters(equipment_type),
          order \in IterDirOrders(equipment_type, disk) : LoadData(channels, order)
    \/ MergeChannels
    \/ ExportToCsv
    \/ GetSummaryStatistics
    \/ VisualizeData

SpecProc == InitProc /\ [][NextProc]_vars

-----------------------------------------------------------------------------
(* The battery descriptor: parse_battery_info_from_path *)

\* A '_'-separated part of the directory name, with what the three tests of
\* the parser find in it: digits, the number re.search(r'(\d+)mAh', ...,
\* re.IGNORECASE) captures, or None; mAh, whether 'mAh' is in the part;
\* digits_mAh, whether re.search(r'\d+mAh', part) matches.
Word(text) ==
    [text |-> text, digits |-> None, mAh |-> FALSE, digits_mAh |-> FALSE]

\* '상온수명' is written "RT".
Tokens ==
    {Word("LGES"), Word("G3"), Word("MP1"), Word("RT"),
     [text |-> "4352mAh", digits |-> 4352, mAh |-> TRUE, digits_mAh |-> TRUE],
     [text |-> "4352MAH", digits |-> 4352, mAh |-> FALSE, digits_mAh |-> FALSE]}

Names == SeqsUpTo(Tokens, MaxTokens) \ {<<>>}

\* Python's None in a text field.
NoText == [isnull |-> TRUE, v |-> ""]

\* '_'.join(parts)
RECURSIVE Join(_)
Join(parts) ==
    IF parts = <<>> THEN ""
    ELSE IF Len(parts) = 1 THEN parts[1]
    ELSE parts[1] \o "_" \o Join(Tail(parts))

Texts(parts) == [i \in 1..Len(parts) |-> parts[i].text]

\* The loop collecting model_parts from parts[1:]: it breaks at the first
\* part with 'mAh' in it.
RECURSIVE ModelParts(_)
ModelParts(parts) ==
    IF parts = <<>> THEN <<>>
    ELSE IF Head(parts).mAh THEN <<>>
    ELSE <<Head(parts).text>> \o ModelParts(Tail(parts))

\* parse_battery_info_from_path on a directory name given by its parts.
parse_battery_info_from_path(parts) ==
    LET matches == {i \in 1..Len(parts) : parts[i].digits # None}
        capacity_match == CHOOSE i \in matches : \A j \in matches : i <= j
        model_parts == ModelParts(Tail(parts))
        last_part == parts[Len(parts)]
    IN  [manufacturer |-> IF Len(parts) >= 2 THEN Some(parts[1].text) ELSE NoText,
         model |-> IF Len(parts) >= 2 /\ model_parts # <<>>
                   THEN Some(Join(model_parts)) ELSE NoText,
         capacity_mah |-> IF matches # {} THEN parts[capacity_match].digits
                          ELSE None,
         test_condition |-> IF ~last_part.digits_mAh THEN Some(last_part.text)
                            ELSE NoText,
         full_name |-> Join(Texts(parts))]

\* The directory name of the parser's docstring.
ExampleName ==
    << Word("LGES"), Word("G3"), Word("MP1"),
       [text |-> "4352mAh", digits |-> 4352, mAh |-> TRUE, digits_mAh |-> TRUE],
       Word("RT") >>

-----------------------------------------------------------------------------
(* The path classifier: detect_equipment_type, validate_data_path *)

\* Names an entry of the data directory can have: one the PNE pattern
\* M\d+Ch\d+ matches, one str.isdigit() accepts, and one neither does.
ItemNames == {"M01Ch003", "86", "notes"}

PneNamed(n) == n = "M01Ch003"

Numeric(n) == n = "86"

\* An entry of the data directory: absent, a file, or a directory that may
\* hold a Restore folder and a CAPACITY.LOG.
Items ==
    {[kind |-> "absent", restore |-> FALSE, log |-> FALSE],
     [kind |-> "file", restore |-> FALSE, log |-> FALSE]}
    \cup [kind : {"dir"}, restore : BOOLEAN, log : BOOLEAN]

NoItems == [n \in ItemNames |-> [kind |-> "absent", restore |-> FALSE, log |-> FALSE]]

\* The paths the classifier is given: one that does not exist, a file, a
\* directory with its entries.
Paths(name) ==
    {[kind |-> "missing", items |-> NoItems, name |-> name],
     [kind |-> "file", items |-> NoItems, name |-> name]}
    \cup {[kind |-> "dir", items |-> i, name |-> name] : i \in [ItemNames -> Items]}

\* Python's None as an equipment type.
Undetected == "None"

Returns(op, value) == [op |-> op, status |-> "ok", value |-> value]

Raises(op, error) == [op |-> op, status |-> error, value |-> Undetected]

HasPneChannel(path) ==
    \E n \in ItemNames :
        /\ path.items[n].kind = "dir"
        /\ PneNamed(n)
        /\ path.items[n].restore

HasToyoChannel(path) ==
    \E n \in ItemNames :
        /\ path.items[n].kind = "dir"
        /\ Numeric(n)
        /\ path.items[n].log

\* detect_equipment_type: None for a path that does not exist; iterdir()
\* raises NotADirectoryError on a path that is not a directory; the PNE
\* signature is looked for first, then the Toyo one.
detect_equipment_type(path) ==
    IF path.kind = "missing" THEN Returns("detect_equipment_type", Undetected)
    ELSE IF path.kind = "file"
    THEN Raises("detect_equipment_type", "NotADirectoryError")
    ELSE IF HasPneChannel(path) THEN Returns("detect_equipment_type", "PNE")
    ELSE IF HasToyoChannel(path) THEN Returns("detect_equipment_type", "Toyo")
    ELSE Returns("detect_equipment_type", Undetected)

\* get_channel_folders: the names of the channel folders of the family.
get_channel_folders(path, eq) ==
    IF eq = "PNE"
    THEN {n \in ItemNames : /\ path.items[n].kind = "dir"
                            /\ PneNamed(n)
                            /\ path.items[n].restore}
    ELSE IF eq = "Toyo"
    THEN {n \in ItemNames : path.items[n].kind = "dir" /\ Numeric(n)}
    ELSE {}

\* validate_data_path accepting every directory.
ValidateAnyDirectory(path) ==
    IF path.kind = "missing" THEN Returns("validate_data_path", FALSE)
    ELSE IF path.kind # "dir" THEN Returns("validate_data_path", FALSE)
    ELSE Returns("validate_data_path", TRUE)

\* validate_data_path: is_valid of the pair it returns.
validate_data_path(path) ==
    IF path.kind = "missing" THEN Returns("validate_data_path", FALSE)
    ELSE IF path.kind # "dir" THEN Returns("validate_data_path", FALSE)
    ELSE LET detected == detect_equipment_type(path)
         IN  IF detected.status # "ok" THEN Raises("validate_data_path", detected.status)
             ELSE IF detected.value = Undetected
             THEN Returns("validate_data_path", FALSE)
             ELSE IF get_channel_folders(path, detected.value) = {}
             THEN Returns("validate_data_path", FALSE)
             ELSE Returns("validate_data_path", TRUE)

\* get_data_loader: the loader class it instantiates for the family.
get_data_loader(eq) ==
    IF eq = "PNE" THEN Returns("get_data_loader", "PNELoader")
    ELSE IF eq \in {"Toyo", "Toyo1", "Toyo2"}
    THEN Returns("get_data_loader", "ToyoLoader")
    ELSE Raises("get_data_loader", "ValueError: Unsupported equipment type")

DetectIdle ==
    /\ battery_info = [capacity_mah |-> None]
    /\ disk = <<>>
    /\ loader_channel_data = <<>>
    /\ channel_data = <<>>
    /\ merged_data = NoTable
    /\ loaded = FALSE
    /\ raw_df = NoTable
    /\ LabelRowIdle /\ LabelTableIdle /\ PneIdle

InitDetect ==
    /\ data_path \in Paths(ExampleName)
    /\ equipment_type = Undetected
    /\ result = Returns("init", Undetected)
    /\ DetectIdle

pathFrame == <<raw_df, labelRowVars, labelTableVars, pneVars, data_path, disk,
               loader_channel_data, channel_data, merged_data, loaded>>

\* A call of detect_equipment_type(data_path)
DetectEquipmentType ==
    /\ result' = detect_equipment_type(data_path)
    /\ UNCHANGED <<equipment_type, battery_info, pathFrame>>

\* A call of validate_data_path(data_path)
ValidateDataPath ==
    /\ result' = validate_data_path(data_path)
    /\ UNCHANGED <<equipment_type, battery_info, pathFrame>>

NextDetect == DetectEquipmentType \/ ValidateDataPath

SpecDetect == InitDetect /\ [][NextDetect]_vars

-----------------------------------------------------------------------------
(* The constructor and the export's base file name *)

\* datetime.now().strftime("%Y%m%d_%H%M%S")
TIMESTAMP == "20250101_000000"

\* The base file name export_to_csv generates when no file name is given.
BaseFilename(info, eq, include_battery_info) ==
    LET info_parts ==
            (IF include_battery_info /\ ~info.manufacturer.isnull
             THEN <<info.manufacturer.v>> ELSE <<>>)
            \o (IF include_battery_info /\ ~info.model.isnull
                THEN <<info.model.v>> ELSE <<>>)
            \o (IF include_battery_info /\ info.capacity_mah # None
                   /\ info.capacity_mah # 0
                THEN <<ToString(info.capacity_mah) \o "mAh">> ELSE <<>>)
            \o (IF eq # Undetected THEN <<eq>> ELSE <<"unknown">>)
            \o <<TIMESTAMP>>
        base_filename == Join(info_parts)
    IN  IF base_filename = "" THEN "battery_data_" \o TIMESTAMP
        ELSE base_filename

\* A data directory with one channel folder of the family.
FamilyPath(eq, name) ==
    [kind |-> "dir",
     items |-> [n \in ItemNames |->
                   IF (eq = "PNE" /\ PneNamed(n)) \/ (eq = "Toyo" /\ Numeric(n))
                   THEN [kind |-> "dir", restore |-> eq = "PNE", log |-> eq = "Toyo"]
                   ELSE [kind |-> "absent", restore |-> FALSE, log |-> FALSE]],
     name |-> name]

NoInfo ==
    [manufacturer |-> NoText, model |-> NoText, capacity_mah |-> None,
     test_condition |-> NoText, full_name |-> ""]

InitName ==
    /\ data_path \in {FamilyPath(eq, name) : eq \in {"PNE", "Toyo"}, name \in Names}
    /\ equipment_type = Undetected
    /\ battery_info = NoInfo
    /\ result = Returns("init", Undetected)
    /\ disk = <<>>
    /\ loader_channel_data = <<>>
    /\ channel_data = <<>>
    /\ merged_data = NoTable
    /\ loaded = FALSE
    /\ raw_df = NoTable
    /\ LabelRowIdle /\ LabelTableIdle /\ PneIdle

\* BatteryDataProcessor.__init__
Construct ==
    /\ result.op = "init"
    /\ IF ~validate_data_path(data_path).value
       THEN /\ result' = Raises("__init__", "ValueError: Invalid data path")
            /\ UNCHANGED <<battery_info, equipment_type>>
       ELSE /\ battery_info' = parse_battery_info_from_path(data_path.name)
            /\ equipment_type' = detect_equipment_type(data_path).value
            /\ result' =
                   LET data_loader == get_data_loader(equipment_type')
                   IN  IF data_loader.status = "ok"
                       THEN Returns("__init__", data_loader.value)
                       ELSE Raises("__init__", data_loader.status)
    /\ UNCHANGED pathFrame

\* Construction on any path: a missing one, a file, or a directory.
NextConstruct == Construct

SpecConstruct == InitDetect /\ [][NextConstruct]_vars

\* export_to_csv without a file name: the base file name it generates.
GenerateBaseFilename(include_battery_info) ==
    /\ result.op # "init"
    /\ result.status = "ok"
    /\ result' = [op |-> "export_to_csv", status |-> "ok",
                  value |-> BaseFilename(battery_info, equipment_type,
                                         include_battery_info),
                  include_battery_info |-> include_battery_info]
    /\ UNCHANGED <<battery_info, equipment_type, pathFrame>>

NextName ==
    \/ Construct
    \/ \E include_battery_info \in BOOLEAN :
           GenerateBaseFilename(include_battery_info)

SpecName == InitName /\ [][NextName]_vars

-----------------------------------------------------------------------------
(* load_data over channel directories with several data files *)

\* What reading a data file gives: an exception, or a table of rows.
DataFiles(eq) ==
    IF eq = "PNE"
    THEN {NoTable, Table(<<[Index |-> 1]>>),
          Table(<<[Index |-> 1], [Index |-> 2]>>)}
    ELSE {NoTable, Table(SubSeq(SampleRawBlock, 1, 1)),
          Table(SubSeq(SampleRawBlock, 4, 5))}

FileContents(eq) ==
    {[exists |-> FALSE, has_log |-> FALSE, files |-> <<>>, cap |-> <<>>]}
    \cup {x \in [exists : {TRUE}, has_log : BOOLEAN,
                  files : SeqsUpTo(DataFiles(eq), MaxChanFiles),
                  cap : {<<>>, SubSeq(SampleCapacity, 1, 2)}] :
            /\ x.cap # <<>> => x.has_log
            /\ eq = "PNE" => ~x.has_log}

FileDisks(eq) == [Range(SortedDirs(eq)) -> FileContents(eq)]

InitLoad ==
    /\ data_path = NoPath
    /\ equipment_type \in {"PNE", "Toyo"}
    /\ battery_info \in {[capacity_mah |-> c] : c \in {None, 4352}}
    /\ disk \in FileDisks(equipment_type)
    /\ ValidDataPath(equipment_type, disk)
    /\ loader_channel_data = <<>>
    /\ channel_data = <<>>
    /\ merged_data = NoTable
    /\ loaded = FALSE
    /\ result = Outcome("init", "ok", NoTable, <<>>)
    /\ raw_df = NoTable
    /\ LabelRowIdle /\ LabelTableIdle /\ PneIdle

NextLoad ==
    \E channels \in Filters(equipment_type),
       order \in IterDirOrders(equipment_type, disk) : LoadData(channels, order)

SpecLoad == InitLoad /\ [][NextLoad]_vars

-----------------------------------------------------------------------------
(* Properties of the processor *)

HeldRowCount == SumSeq([i \in 1..Len(channel_data) |-> Len(channel_data[i].table)])

HeldAllEmpty == \A i \in 1..Len(channel_data) : channel_data[i].table = <<>>

\* C5: the table merge_channels returns has as many rows as the channel
\* tables the processor holds together, and every row's channel names a
\* held channel.
C5_MergeCompleteness ==
    (result.op = "merge_channels" /\ result.status = "ok") =>
        /\ Len(result.used.rows) = HeldRowCount
        /\ \A i \in 1..Len(result.used.rows) :
               result.used.rows[i].channel \in DictKeys(channel_data)

\* C6: the merged table export_to_csv, get_summary_statistics or
\* visualize_data operates on is the concatenation of the channel tables
\* held at the time of the call.
C6_MergedRecomputed ==
    (/\ result.op \in {"export_to_csv", "get_summary_statistics", "visualize_data"}
     /\ result.status = "ok"
     /\ ~result.used.isnull) =>
        result.used.rows = MergeHeld

\* C7: before load_data has been called, merge_channels, export_to_csv and
\* get_summary_statistics fail with the unloaded-state error and no file is
\* written, for both equipment families.
C7_UnloadedRejected ==
    (/\ ~loaded
     /\ result.op \in {"merge_channels", "export_to_csv", "get_summary_statistics"}) =>
        /\ result.status = "ValueError"
        /\ result.files = <<>>

\* C8: after a load_data that found no channel, or with every held channel
\* table empty, merge_channels and export_to_csv fail with the no-data
\* error: no empty merged table, no empty file list, no file written.
C8_EmptyRejected ==
    (/\ loaded
     /\ HeldAllEmpty
     /\ result.op \in {"merge_channels", "export_to_csv"}) =>
        /\ result.status = "ValueError"
        /\ result.files = <<>>

HasFile(kind, channel) ==
    \E i \in 1..Len(result.files) :
        /\ result.files[i].kind = kind
        /\ result.files[i].channel = channel

\* C9: in a Toyo export with no capacity in the battery descriptor, a
\* channel with non-empty raw and summary tables has both files exported,
\* its raw rows labeled with C-rate = |Current| / 1730.
C9_DefaultRatedCapacity ==
    (/\ equipment_type = "Toyo"
     /\ result.op = "export_to_csv"
     /\ battery_info.capacity_mah = None) =>
        \A dir \in DOMAIN disk :
            (/\ disk[dir].exists
             /\ load_raw_data_files(disk[dir].files) # <<>>
             /\ disk[dir].cap # <<>>) =>
                /\ HasFile("capacity_log", ChannelName("Toyo", dir))
                /\ \E i \in 1..Len(result.files) :
                       /\ result.files[i].kind = "raw_data"
                       /\ result.files[i].channel = ChannelName("Toyo", dir)
                       /\ \A k \in 1..Len(result.files[i].rows) :
                              result.files[i].rows[k].crate =
                                  Round(1000 * Abs(result.files[i].rows[k].Current),
                                        100 * DEFAULT_RATED_CAPACITY)

\* The files of the last call's result written for a channel.
FilesOf(channel) ==
    SelectSeq(result.files, LAMBDA f : f.kind # "summary" /\ f.channel = channel)

\* The labeling of a channel directory raises: both tables are there and
\* the labeler was built without a rated capacity.
LabelingRaises(dir) ==
    /\ battery_info.capacity_mah = None
    /\ disk[dir].cap # <<>>
    /\ \E k \in 1..Len(disk[dir].files) :
           ~disk[dir].files[k].isnull /\ disk[dir].files[k].rows # <<>>

\* C14: a Toyo export returns a list that ends with the one summary file;
\* a channel contributes at most two files; a channel with empty raw and
\* summary tables, or whose processing raises, contributes none; every
\* other channel, also after a raising one, has a file for each of its
\* non-empty tables.
C14_ToyoExportIsolation ==
    (equipment_type = "Toyo" /\ result.op = "export_to_csv") =>
        /\ result.status = "ok"
        /\ result.files # <<>>
        /\ \A i \in 1..Len(result.files) :
               result.files[i].kind = "summary" <=> i = Len(result.files)
        /\ \A dir \in DOMAIN disk :
               LET name == ChannelName("Toyo", dir)
                   raw == \E k \in 1..Len(disk[dir].files) :
                              disk[dir].files[k].rows # <<>>
                   cap == disk[dir].cap # <<>>
               IN  /\ Len(FilesOf(name)) <= 2
                   /\ (~disk[dir].exists \/ (~raw /\ ~cap) \/ LabelingRaises(dir))
                          => FilesOf(name) = <<>>
                   /\ (disk[dir].exists /\ ~LabelingRaises(dir)) =>
                          /\ raw <=> HasFile("raw_data", name)
                          /\ cap <=> HasFile("capacity_log", name)

C14_Witness ==
    /\ equipment_type = "Toyo"
    /\ result.op = "export_to_csv"
    /\ LabelingRaises("86")
    /\ disk["93"].exists
    /\ ~LabelingRaises("93")
    /\ Len(result.files) = 2
    /\ result.files[1].kind = "capacity_log"
    /\ result.files[1].channel = "Ch93"
    /\ result.files[2].kind = "summary"

\* The raw rows in the parsed data files of a channel directory, in order.
RawOnDisk(dir) ==
    Flatten([k \in 1..Len(disk[dir].files) |->
                IF disk[dir].files[k].isnull THEN <<>> ELSE disk[dir].files[k].rows])

\* The exported file of the kind for the channel has the keys of the rows.
FileOfRows(kind, channel, rows) ==
    \E i \in 1..Len(result.files) :
        /\ result.files[i].kind = kind
        /\ result.files[i].channel = channel
        /\ Len(result.files[i].rows) = Len(rows)
        /\ \A k \in 1..Len(rows) :
               /\ result.files[i].rows[k].TotlCycle = rows[k].TotlCycle
               /\ result.files[i].rows[k].Condition = rows[k].Condition
               /\ result.files[i].rows[k].Mode = rows[k].Mode

C27_LabeledRawHasCrate ==
    (equipment_type = "Toyo" /\ result.op = "export_to_csv") =>
        \A i \in 1..Len(result.files) :
            (result.files[i].kind = "raw_data" /\ result.files[i].labeled) =>
                \A k \in 1..Len(result.files[i].rows) :
                    "crate" \in DOMAIN result.files[i].rows[k]

\* The columns label_capacity_log and label_raw_data add.
LabelColumns ==
    {"cycle", "pattern", "step", "crate", "cutoff_voltage", "cutoff_current"}

NoLabelColumn(rows) ==
    \A i \in 1..Len(rows) : DOMAIN rows[i] \cap LabelColumns = {}

\* C15: a Toyo export with labeling leaves the processor's channel tables
\* and merged table as they were, and no label column is in either of them
\* afterwards (the labelers work on copies of the tables read for the
\* export).
C15_LabelsNotPersisted ==
    [][(equipment_type = "Toyo" /\ result'.op = "export_to_csv") =>
           /\ channel_data' = channel_data
           /\ merged_data' = merged_data
           /\ \A i \in 1..Len(channel_data') :
                  NoLabelColumn(channel_data'[i].table)
           /\ \A i \in 1..Len(merged_data'.rows) :
                  DOMAIN merged_data'.rows[i].row \cap LabelColumns = {}]_vars

C15_Witness ==
    /\ equipment_type = "Toyo"
    /\ result.op = "export_to_csv"
    /\ \E i \in 1..Len(result.files) : \E j \in 1..Len(channel_data) :
           /\ result.files[i].channel = channel_data[j].name
           /\ result.files[i].rows # <<>>
           /\ "crate" \in DOMAIN result.files[i].rows[1]
           /\ channel_data[j].table # <<>>
           /\ NoLabelColumn(channel_data[j].table)
    /\ ~merged_data.isnull
    /\ merged_data.rows # <<>>

-----------------------------------------------------------------------------
(* Properties of the path classifier *)

\* C16: detect_equipment_type returns None, and does not raise, for a path
\* that does not exist, for a path that is not a directory, and for a
\* directory with neither a PNE nor a Toyo signature.
C16_UndetectedIsAValue ==
    (/\ result.op = "detect_equipment_type"
     /\ \/ data_path.kind = "missing"
        \/ data_path.kind = "file"
        \/ /\ data_path.kind = "dir"
           /\ \A n \in ItemNames :
                  data_path.items[n].kind = "dir" =>
                      /\ ~(PneNamed(n) /\ data_path.items[n].restore)
                      /\ ~(Numeric(n) /\ data_path.items[n].log)) =>
        /\ result.status = "ok"
        /\ result.value = Undetected

-----------------------------------------------------------------------------
(* Properties of the descriptor and of the base file name *)

\* The parts that match <digits>mAh in any letter case.
CapacityParts(parts) == {i \in 1..Len(parts) : parts[i].digits # None}

\* The first of them, or Len(parts) + 1 when there is none.
FirstCapacityPart(parts) ==
    IF CapacityParts(parts) = {} THEN Len(parts) + 1
    ELSE CHOOSE i \in CapacityParts(parts) : \A j \in CapacityParts(parts) : i <= j

\* C17: for a directory name of two or more parts the descriptor has the
\* first part as manufacturer, the parts after it up to the part with the
\* capacity (<digits>mAh in any letter case) joined by '_' as model, the
\* digits of that part as capacity, and the last part as test condition
\* exactly when the last part carries no capacity.
C17_DescriptorFields ==
    (result.op = "__init__" /\ result.status = "ok" /\ Len(data_path.name) >= 2) =>
        LET parts == data_path.name
            c == FirstCapacityPart(parts)
            last == parts[Len(parts)]
        IN  /\ battery_info.manufacturer = Some(parts[1].text)
            /\ c > 2 => battery_info.model = Some(Join(Texts(SubSeq(parts, 2, c - 1))))
            /\ c = 2 => battery_info.model.isnull
            /\ c <= Len(parts) => battery_info.capacity_mah = parts[c].digits
            /\ c > Len(parts) => battery_info.capacity_mah = None
            /\ battery_info.test_condition =
                   (IF last.digits = None THEN Some(last.text) ELSE NoText)

\* The descriptor of the example name LGES_G3_MP1_4352mAh_RT.
C17_Example ==
    (result.op = "__init__" /\ data_path.name = ExampleName) =>
        /\ battery_info.manufacturer = Some("LGES")
        /\ battery_info.model = Some("G3_MP1")
        /\ battery_info.capacity_mah = 4352
        /\ battery_info.test_condition = Some("RT")

\* C18: the generated base name is the '_'-join of manufacturer, model,
\* '<capacity>mAh', equipment type and timestamp without the absent
\* descriptor fields, and 'battery_data_<timestamp>' when manufacturer,
\* model and capacity are all absent.
C18_BaseFilename ==
    (result.op = "export_to_csv" /\ result.include_battery_info) =>
        LET present ==
                (IF battery_info.manufacturer.isnull THEN <<>>
                 ELSE <<battery_info.manufacturer.v>>)
                \o (IF battery_info.model.isnull THEN <<>>
                    ELSE <<battery_info.model.v>>)
                \o (IF battery_info.capacity_mah = None THEN <<>>
                    ELSE <<ToString(battery_info.capacity_mah) \o "mAh">>)
        IN  result.value =
                IF present = <<>> THEN "battery_data_" \o TIMESTAMP
                ELSE Join(present \o <<equipment_type, TIMESTAMP>>)

-----------------------------------------------------------------------------
(* Properties of the loaders *)

\* The number of rows the parsed files before the k-th hold together.
RowsBefore(files, k) == SumSeq([j \in 1..(k - 1) |-> Len(files[j].rows)])

\* The table holds the rows of every parsed file, file after file in name
\* order, and nothing else.
HoldsFilesInOrder(table, files) ==
    /\ Len(table) = RowsBefore(files, Len(files) + 1)
    /\ \A k \in 1..Len(files) : \A i \in 1..Len(files[k].rows) :
           table[RowsBefore(files, k) + i] = files[k].rows[i]

\* C13: after a load, whatever files failed to parse, every channel
\* directory has its table: the rows of its parsed files in name order; a
\* Toyo channel without parsed raw rows has its summary log, and a channel
\* with nothing parsed an empty table; the load itself does not fail.
C13_FileFailureIsolation ==
    result.op = "load_data" =>
        /\ result.status = "ok"
        /\ \A dir \in DOMAIN disk : disk[dir].exists =>
               \E e \in Range(loader_channel_data) :
                   /\ e.name = ChannelName(equipment_type, dir)
                   /\ IF \/ equipment_type = "PNE"
                         \/ RowsBefore(disk[dir].files, Len(disk[dir].files) + 1) > 0
                      THEN HoldsFilesInOrder(e.table, disk[dir].files)
                      ELSE e.table = disk[dir].cap

C13_Witness ==
    /\ result.op = "load_data"
    /\ \E a, b \in Range(loader_channel_data) : \E da, db \in DOMAIN disk :
           /\ a.name = ChannelName(equipment_type, da)
           /\ b.name = ChannelName(equipment_type, db)
           /\ Len(disk[da].files) = 2
           /\ disk[da].files[1].isnull
           /\ ~disk[da].files[2].isnull
           /\ a.table = disk[da].files[2].rows
           /\ disk[db].files = <<NoTable>>
           /\ b.table = <<>>

====
